---- MODULE Spec2Model ----
(***************************************************************************)
(* Locomotive inventory service (src/server.js): the in-memory repository  *)
(* LocRepository, the record class Locomotief, the API key check Auth and  *)
(* the five Express routes under /api/locomotives.                         *)
(*                                                                         *)
(* A JavaScript string is a sequence of one-character strings, so that     *)
(* String(), Number() and split(" ") are computed character by character.  *)
(* A JavaScript value is a record [t, n, s]: t its kind, n its number,     *)
(* s its characters.                                                       *)
(***************************************************************************)
EXTENDS Integers, Sequences, FiniteSets, TLC

\* Number of requests the server handles in one explored run.
MaxReqs == 3

\* ------------------------------------------------------------------------
\* JavaScript values that a JSON body, a header or a path parameter carries
\* ------------------------------------------------------------------------
Undefined == [t |-> "undefined", n |-> 0, s |-> <<>>]
Null == [t |-> "null", n |-> 0, s |-> <<>>]
Bool(b) == [t |-> "boolean", n |-> IF b THEN 1 ELSE 0, s |-> <<>>]
Num(k) == [t |-> "number", n |-> k, s |-> <<>>]
NaN == [t |-> "NaN", n |-> 0, s |-> <<>>]
Str(cs) == [t |-> "string", n |-> 0, s |-> cs]
\* The empty array literal [] of a JSON body.
EmptyArray == [t |-> "array", n |-> 0, s |-> <<>>]

Digits == <<"0", "1", "2", "3", "4", "5", "6", "7", "8", "9">>

IsDigit(c) == \E d \in 1..10 : Digits[d] = c

DigitVal(c) == (CHOOSE d \in 1..10 : Digits[d] = c) - 1

RECURSIVE ParseDigits(_, _)
ParseDigits(cs, acc) ==
  IF cs = <<>> THEN acc
  ELSE ParseDigits(Tail(cs), acc * 10 + DigitVal(Head(cs)))

IsDigits(cs) == cs # <<>> /\ \A i \in 1..Len(cs) : IsDigit(cs[i])

RECURSIVE TrimLeft(_)
TrimLeft(cs) ==
  IF cs # <<>> /\ Head(cs) = " " THEN TrimLeft(Tail(cs)) ELSE cs

RECURSIVE TrimRight(_)
TrimRight(cs) ==
  IF cs # <<>> /\ cs[Len(cs)] = " " THEN TrimRight(SubSeq(cs, 1, Len(cs) - 1))
  ELSE cs

\* Number("...") for strings of digits, sign, blanks and other characters that
\* form no hexadecimal, fractional or exponent literal: blanks are trimmed,
\* the empty string is 0, a signed run of digits is its value, the rest NaN.
StringToNumber(cs) ==
  LET t == TrimRight(TrimLeft(cs)) IN
  IF t = <<>> THEN Num(0)
  ELSE IF Head(t) = "-" /\ IsDigits(Tail(t)) THEN Num(0 - ParseDigits(Tail(t), 0))
  ELSE IF Head(t) = "+" /\ IsDigits(Tail(t)) THEN Num(ParseDigits(Tail(t), 0))
  ELSE IF IsDigits(t) THEN Num(ParseDigits(t, 0))
  ELSE NaN

RECURSIVE NatToString(_)
NatToString(k) ==
  IF k < 10 THEN <<Digits[k + 1]>>
  ELSE NatToString(k \div 10) \o <<Digits[(k % 10) + 1]>>

NumberToString(k) == IF k < 0 THEN <<"-">> \o NatToString(0 - k) ELSE NatToString(k)

\* Number(v)
Number(v) ==
  CASE v.t = "undefined" -> NaN
    [] v.t = "null" -> Num(0)
    [] v.t = "boolean" -> Num(v.n)
    [] v.t = "number" -> v
    [] v.t = "NaN" -> NaN
    [] v.t = "string" -> StringToNumber(v.s)
    [] v.t = "array" -> Num(0)

\* String(v)
String(v) ==
  CASE v.t = "undefined" -> Str(<<"u", "n", "d", "e", "f", "i", "n", "e", "d">>)
    [] v.t = "null" -> Str(<<"n", "u", "l", "l">>)
    [] v.t = "boolean" -> IF v.n = 1 THEN Str(<<"t", "r", "u", "e">>) ELSE Str(<<"f", "a", "l", "s", "e">>)
    [] v.t = "number" -> Str(NumberToString(v.n))
    [] v.t = "NaN" -> Str(<<"N", "a", "N">>)
    [] v.t = "string" -> v
    [] v.t = "array" -> Str(<<>>)

\* The truthiness that !v, v ? a : b and v || w test.
Truthy(v) ==
  CASE v.t = "undefined" -> FALSE
    [] v.t = "null" -> FALSE
    [] v.t = "boolean" -> v.n = 1
    [] v.t = "number" -> v.n # 0
    [] v.t = "NaN" -> FALSE
    [] v.t = "string" -> v.s # <<>>
    [] v.t = "array" -> TRUE

\* v || w
Or(v, w) == IF Truthy(v) THEN v ELSE w

\* JSON.stringify of a value, read back: NaN is written null.
JsonValue(v) == IF v = NaN THEN Null ELSE v

\* JSON.stringify(o) of an object, read back: an undefined field is left
\* out (it reads as undefined again), a NaN field is written null.
JsonStringify(o) == [f \in DOMAIN o |-> JsonValue(o[f])]

\* JSON.stringify(xs) of an array of objects, read back.
JsonStringifyAll(xs) == [i \in 1..Len(xs) |-> JsonStringify(xs[i])]

\* a === b on numbers: NaN equals nothing, itself included.
StrictEq(a, b) == a.t = "number" /\ b.t = "number" /\ a.n = b.n

\* A default parameter value: it applies to an undefined argument only.
Default(v, d) == IF v = Undefined THEN d ELSE v

\* Math.max(...xs) of a non-empty list of numbers: NaN as soon as one is NaN.
MathMax(xs) ==
  IF \E i \in 1..Len(xs) : xs[i].t # "number" THEN NaN
  ELSE Num(CHOOSE m \in {xs[i].n : i \in 1..Len(xs)} :
             \A i \in 1..Len(xs) : xs[i].n <= m)

\* x + 1
Plus1(x) == IF x.t = "number" THEN Num(x.n + 1) ELSE NaN

\* xs.findIndex(x => x.id === id): the first position, 0 when there is none
\* (JavaScript's -1).
FindIndex(xs, id) ==
  IF \E i \in 1..Len(xs) : StrictEq(xs[i].id, id)
  THEN CHOOSE i \in 1..Len(xs) :
         /\ StrictEq(xs[i].id, id)
         /\ \A j \in 1..(i - 1) : ~StrictEq(xs[j].id, id)
  ELSE 0

\* xs.splice(idx, 1): the list without position idx.
Splice(xs, idx) == SubSeq(xs, 1, idx - 1) \o SubSeq(xs, idx + 1, Len(xs))

\* h.split(" "): the pieces between single blanks; "" gives one empty piece.
RECURSIVE Split(_)
Split(cs) ==
  IF \E i \in 1..Len(cs) : cs[i] = " "
  THEN LET k == CHOOSE i \in 1..Len(cs) :
                  cs[i] = " " /\ \A j \in 1..(i - 1) : cs[j] # " "
       IN <<SubSeq(cs, 1, k - 1)>> \o Split(SubSeq(cs, k + 1, Len(cs)))
  ELSE <<cs>>

\* ------------------------------------------------------------------------
\* class Locomotief
\* ------------------------------------------------------------------------
\* constructor({ id, serie, type, fabrikant = "", bouwjaar = 0, ... })
Locomotief(init) ==
  [id |-> Number(init.id),
   serie |-> String(init.serie),
   type |-> String(init.type),
   fabrikant |-> String(Default(init.fabrikant, Str(<<>>))),
   bouwjaar |-> Number(Default(init.bouwjaar, Num(0))),
   spoorwijdte |-> Number(Default(init.spoorwijdte, Num(1435))),
   tractie |-> String(Default(init.tractie, Str(<<>>))),
   maxSnelheid |-> Number(Default(init.maxSnelheid, Num(0)))]

\* Locomotief_update as if it tested the patch's values for truthiness.
Locomotief_update_Truthy(x, patch) ==
  [x EXCEPT
     !.serie = IF Truthy(patch.serie) THEN String(patch.serie) ELSE @,
     !.type = IF Truthy(patch.type) THEN String(patch.type) ELSE @,
     !.fabrikant = IF Truthy(patch.fabrikant) THEN String(patch.fabrikant) ELSE @,
     !.bouwjaar = IF Truthy(patch.bouwjaar) THEN Number(patch.bouwjaar) ELSE @,
     !.spoorwijdte = IF Truthy(patch.spoorwijdte) THEN Number(patch.spoorwijdte) ELSE @,
     !.tractie = IF Truthy(patch.tractie) THEN String(patch.tractie) ELSE @,
     !.maxSnelheid = IF Truthy(patch.maxSnelheid) THEN Number(patch.maxSnelheid) ELSE @]

\* Locomotief_update as if id were one of the patched fields.
Locomotief_update_WithId(x, patch) ==
  [x EXCEPT
     !.id = IF patch.id # Undefined THEN Number(patch.id) ELSE @,
     !.serie = IF patch.serie # Undefined THEN String(patch.serie) ELSE @,
     !.type = IF patch.type # Undefined THEN String(patch.type) ELSE @,
     !.fabrikant = IF patch.fabrikant # Undefined THEN String(patch.fabrikant) ELSE @,
     !.bouwjaar = IF patch.bouwjaar # Undefined THEN Number(patch.bouwjaar) ELSE @,
     !.spoorwijdte = IF patch.spoorwijdte # Undefined THEN Number(patch.spoorwijdte) ELSE @,
     !.tractie = IF patch.tractie # Undefined THEN String(patch.tractie) ELSE @,
     !.maxSnelheid = IF patch.maxSnelheid # Undefined THEN Number(patch.maxSnelheid) ELSE @]

\* update(patch): a field is overwritten when the patch's value is not undefined.
Locomotief_update(x, patch) ==
  [x EXCEPT
     !.serie = IF patch.serie # Undefined THEN String(patch.serie) ELSE @,
     !.type = IF patch.type # Undefined THEN String(patch.type) ELSE @,
     !.fabrikant = IF patch.fabrikant # Undefined THEN String(patch.fabrikant) ELSE @,
     !.bouwjaar = IF patch.bouwjaar # Undefined THEN Number(patch.bouwjaar) ELSE @,
     !.spoorwijdte = IF patch.spoorwijdte # Undefined THEN Number(patch.spoorwijdte) ELSE @,
     !.tractie = IF patch.tractie # Undefined THEN String(patch.tractie) ELSE @,
     !.maxSnelheid = IF patch.maxSnelheid # Undefined THEN Number(patch.maxSnelheid) ELSE @]

\* toJSON(): a fresh object with the eight fields.
Locomotief_toJSON(x) ==
  [id |-> x.id, serie |-> x.serie, type |-> x.type, fabrikant |-> x.fabrikant,
   bouwjaar |-> x.bouwjaar, spoorwijdte |-> x.spoorwijdte, tractie |-> x.tractie,
   maxSnelheid |-> x.maxSnelheid]

\* ------------------------------------------------------------------------
\* class LocRepository; its field items is the variable items below
\* ------------------------------------------------------------------------
\* constructor(seed)
LocRepository(seed) == [i \in 1..Len(seed) |-> Locomotief(seed[i])]

\* all()
LocRepository_all(its) == [i \in 1..Len(its) |-> Locomotief_toJSON(its[i])]

\* get(id): the first item with that id as JSON, or null.
LocRepository_get(its, id) ==
  LET idx == FindIndex(its, Number(id)) IN
  IF idx = 0 THEN Null ELSE Locomotief_toJSON(its[idx])

\* NextId as if it counted the items instead of taking the largest id.
NextIdByLength(its) == Num(Len(its) + 1)

\* The id add() gives: the largest id of the items plus one, 1 for no items.
NextId(its) ==
  IF Len(its) # 0 THEN Plus1(MathMax([i \in 1..Len(its) |-> its[i].id])) ELSE Num(1)

\* LocRepository_add as if it used unshift, which puts the item first.
LocRepository_add_Unshift(its, data) ==
  LET id == NextId(its)
      item == Locomotief([data EXCEPT !.id = IF data.id # Undefined THEN data.id ELSE id])
  IN [items |-> <<item>> \o its, ret |-> Locomotief_toJSON(item)]

\* add(data): { id, ...data } lets an id of data replace the computed one.
LocRepository_add(its, data) ==
  LET id == NextId(its)
      item == Locomotief([data EXCEPT !.id = IF data.id # Undefined THEN data.id ELSE id])
  IN [items |-> Append(its, item), ret |-> Locomotief_toJSON(item)]

\* LocRepository_update as if a miss created the record.
LocRepository_update_Upsert(its, id, data) ==
  LET idx == FindIndex(its, Number(id))
      made == Locomotief([data EXCEPT !.id = id])
  IN IF idx = 0 THEN [items |-> Append(its, made), ret |-> Locomotief_toJSON(made)]
     ELSE LET upd == [its EXCEPT ![idx] = Locomotief_update(its[idx], data)]
          IN [items |-> upd, ret |-> Locomotief_toJSON(upd[idx])]

\* update(id, data)
LocRepository_update(its, id, data) ==
  LET idx == FindIndex(its, Number(id)) IN
  IF idx = 0 THEN [items |-> its, ret |-> Null]
  ELSE LET upd == [its EXCEPT ![idx] = Locomotief_update(its[idx], data)]
       IN [items |-> upd, ret |-> Locomotief_toJSON(upd[idx])]

\* LocRepository_remove as if it used slice, which leaves the list as it is.
LocRepository_remove_Slice(its, id) ==
  LET idx == FindIndex(its, Number(id)) IN
  IF idx = 0 THEN [items |-> its, ret |-> Null]
  ELSE [items |-> its, ret |-> Locomotief_toJSON(its[idx])]

\* remove(id)
LocRepository_remove(its, id) ==
  LET idx == FindIndex(its, Number(id)) IN
  IF idx = 0 THEN [items |-> its, ret |-> Null]
  ELSE [items |-> Splice(its, idx), ret |-> Locomotief_toJSON(its[idx])]

\* ------------------------------------------------------------------------
\* class Auth and the keys of the server
\* ------------------------------------------------------------------------
\* The keys when the environment sets none.
API_KEY == Str(<<"d", "e", "m", "o", "-", "r", "e", "a", "d">>)

ADMIN_KEY == Str(<<"d", "e", "m", "o", "-", "a", "d", "m", "i", "n">>)

\* token(req): the second of exactly two pieces of the header, else the header;
\* h is req.get("Authorization"), undefined for a request without the header.
Auth_token(h) ==
  LET hh == Or(h, Str(<<>>))
      parts == Split(hh.s)
  IN IF Len(parts) = 2 THEN Str(parts[2]) ELSE hh

\* What a middleware leaves when it calls next(): no response yet.
NextCalled == [status |-> 0, body |-> Undefined]

\* res.json(x) after an optional res.status(code): the client receives what
\* JSON.stringify(x) wrote.
Json(code, x) == [status |-> code, body |-> JsonStringify(x)]

\* res.json(xs) for an array.
JsonList(code, xs) == [status |-> code, body |-> JsonStringifyAll(xs)]

\* Auth_any as if it knew the read key only.
Auth_any_ReadKeyOnly(h) ==
  LET t == Auth_token(h) IN
  IF t = API_KEY THEN NextCalled
  ELSE Json(401, [error |-> Str(<<"U", "n", "a", "u", "t", "h", "o", "r", "i", "z", "e", "d">>)])

\* any(req, res, next)
Auth_any(h) ==
  LET t == Auth_token(h) IN
  IF t = API_KEY \/ t = ADMIN_KEY THEN NextCalled
  ELSE Json(401, [error |-> Str(<<"U", "n", "a", "u", "t", "h", "o", "r", "i", "z", "e", "d">>)])

\* Auth_admin as if it accepted what Auth_any accepts.
Auth_admin_AnyKey(h) ==
  LET t == Auth_token(h) IN
  IF t = API_KEY \/ t = ADMIN_KEY THEN NextCalled
  ELSE Json(403, [error |-> Str(<<"F", "o", "r", "b", "i", "d", "d", "e", "n">>)])

\* admin(req, res, next)
Auth_admin(h) ==
  LET t == Auth_token(h) IN
  IF t = ADMIN_KEY THEN NextCalled
  ELSE Json(403, [error |-> Str(<<"F", "o", "r", "b", "i", "d", "d", "e", "n">>)])

\* ------------------------------------------------------------------------
\* The seven locomotives the repository is built with
\* ------------------------------------------------------------------------
SeedRow(id, serie, type, fabrikant, bouwjaar, tractie, maxSnelheid) ==
  [id |-> Num(id), serie |-> Str(serie), type |-> Str(type),
   fabrikant |-> Str(fabrikant), bouwjaar |-> Num(bouwjaar),
   spoorwijdte |-> Num(1435), tractie |-> Str(tractie),
   maxSnelheid |-> Num(maxSnelheid)]

Seed ==
  << SeedRow(1, <<"N", "S", " ", "1", "1", "0", "0">>, <<"E", "l", "e", "k", "t", "r", "i", "s", "c", "h">>, <<"A", "l", "s", "t", "h", "o", "m">>, 1950, <<"E">>, 130),
     SeedRow(2, <<"N", "S", " ", "1", "2", "0", "0">>, <<"E", "l", "e", "k", "t", "r", "i", "s", "c", "h">>, <<"W", "e", "r", "k", "s", "p", "o", "o", "r", "/", "H", "e", "e", "m", "a", "f", "/", "B", "a", "l", "d", "w", "i", "n", "-", "W", "e", "s", "t", "i", "n", "g", "h", "o", "u", "s", "e">>, 1951, <<"E">>, 150),
     SeedRow(3, <<"N", "S", " ", "1", "6", "0", "0">>, <<"E", "l", "e", "k", "t", "r", "i", "s", "c", "h">>, <<"A", "l", "s", "t", "h", "o", "m">>, 1981, <<"E">>, 160),
     SeedRow(4, <<"N", "S", " ", "1", "7", "0", "0">>, <<"E", "l", "e", "k", "t", "r", "i", "s", "c", "h">>, <<"A", "l", "s", "t", "h", "o", "m">>, 1990, <<"E">>, 160),
     SeedRow(5, <<"N", "S", " ", "2", "2", "0", "0">>, <<"D", "i", "e", "s", "e", "l">>, <<"A", "l", "l", "a", "n", "/", "E", "M", "D">>, 1955, <<"D">>, 100),
     SeedRow(6, <<"N", "S", " ", "2", "4", "0", "0">>, <<"D", "i", "e", "s", "e", "l">>, <<"A", "l", "s", "t", "h", "o", "m">>, 1954, <<"D">>, 90),
     SeedRow(7, <<"N", "S", " ", "6", "4", "0", "0">>, <<"D", "i", "e", "s", "e", "l">>, <<"M", "a", "K">>, 1988, <<"D">>, 120) >>

\* ------------------------------------------------------------------------
\* Requests
\* ------------------------------------------------------------------------
\* A JSON body as the object express.json() yields: a field the body lacks
\* reads as undefined.
EmptyBody ==
  [id |-> Undefined, serie |-> Undefined, type |-> Undefined, fabrikant |-> Undefined,
   bouwjaar |-> Undefined, spoorwijdte |-> Undefined, tractie |-> Undefined,
   maxSnelheid |-> Undefined]

Bodies ==
  { EmptyBody,
    [EmptyBody EXCEPT !.serie = Str(<<"N", "S", " ", "1", "3", "0", "0">>), !.type = Str(<<"E", "l", "e", "k", "t", "r", "i", "s", "c", "h">>)],
    [EmptyBody EXCEPT !.tractie = Str(<<"D">>), !.fabrikant = Str(<<>>),
                      !.spoorwijdte = Str(<<" ", "1", "0", "0", "0">>)],
    [EmptyBody EXCEPT !.id = Num(1), !.serie = Str(<<"X">>), !.maxSnelheid = Num(140)],
    [EmptyBody EXCEPT !.serie = Str(<<>>), !.type = Str(<<"D", "i", "e", "s", "e", "l">>),
                      !.bouwjaar = Str(<<"a", "b", "c">>), !.tractie = Null],
    [EmptyBody EXCEPT !.serie = EmptyArray, !.type = Num(5), !.spoorwijdte = Num(0)] }

\* Authorization headers: none, the bare read key, the admin key as a bearer
\* token, and a header of three pieces.
Headers ==
  { Undefined,
    Str(<<"d", "e", "m", "o", "-", "r", "e", "a", "d">>),
    Str(<<"B", "e", "a", "r", "e", "r", " ", "d", "e", "m", "o", "-", "a", "d", "m", "i", "n">>),
    Str(<<"B", "e", "a", "r", "e", "r", " ", " ", "d", "e", "m", "o", "-", "a", "d", "m", "i", "n">>) }

\* The :id of a path.
ParamIds == { Str(<<"1">>), Str(<<"7">>), Str(<<"8">>), Str(<<"a", "b", "c">>) }

VARIABLES
  items,   \* repo.items
  prev,    \* repo.items when the last request arrived
  issued,  \* the ids given to records so far, oldest first
  req,     \* the last request: method, path parameter, header, body
  res,     \* the response to it: status and JSON body
  nreq,    \* number of requests handled
  \* A LocRepository used directly by a caller that keeps what it returns:
  heap,    \* the objects there are, by address
  store,   \* this.items: the addresses of its Locomotief objects
  held,    \* the addresses of the objects the calls returned
  call,    \* the last call: op, id, data
  ret,     \* what it returned: addresses, none for null
  before,  \* the records of this.items when the last call was made
  ncall,   \* number of calls made
  \* Requests that overlap in time:
  inflight, \* the requests that have arrived and are not handled yet
  answers,  \* the requests handled, in the order they were handled
  \* The browser client (src/unnamed/part_000):
  form,     \* the values of the eight form fields, idEl to maxSnelheidEl
  adminKey, \* adminKey.value
  readKey,  \* readKey.value
  status,   \* statusEl.textContent
  grid,     \* the rows of gridBody
  sent,     \* the requests fetch has sent, in order
  tasks,    \* the listener and loadData calls: which, where each stands
  last,     \* the last step taken and the call that took it
  was,      \* form, grid and sent before the last step
  nev       \* number of user events

serverVars == <<items, prev, issued, req, res, nreq>>

repoVars == <<heap, store, held, call, ret, before, ncall>>

concVars == <<inflight, answers>>

clientVars == <<form, adminKey, readKey, status, grid, sent, tasks, last, was, nev>>

vars == <<serverVars, repoVars, concVars, clientVars>>

NoRequest == [method |-> "", id |-> Undefined, header |-> Undefined, body |-> EmptyBody]

NoCall == [op |-> "", id |-> Undefined, data |-> EmptyBody]

\* No LocRepository besides the server's.
RepoUnused ==
  /\ heap = <<>>
  /\ store = <<>>
  /\ held = {}
  /\ call = NoCall
  /\ ret = <<>>
  /\ before = <<>>
  /\ ncall = 0

\* No request waits for its handler.
NoneInFlight ==
  /\ inflight = {}
  /\ answers = <<>>

\* No page is open.
NoClient ==
  /\ form = <<>>
  /\ adminKey = <<>>
  /\ readKey = <<>>
  /\ status = <<>>
  /\ grid = <<>>
  /\ sent = <<>>
  /\ tasks = <<>>
  /\ last = <<>>
  /\ was = <<>>
  /\ nev = 0

Init ==
  /\ RepoUnused
  /\ NoneInFlight
  /\ NoClient
  /\ items = LocRepository(Seed)
  /\ prev = LocRepository(Seed)
  /\ issued = [i \in 1..Len(Seed) |-> LocRepository(Seed)[i].id]
  /\ req = NoRequest
  /\ res = NextCalled
  /\ nreq = 0

\* What every handler does besides answering.
Handled(method, id, h, b) ==
  /\ nreq < MaxReqs
  /\ nreq' = nreq + 1
  /\ prev' = items
  /\ req' = [method |-> method, id |-> id, header |-> h, body |-> b]
  /\ UNCHANGED <<repoVars, clientVars>>

\* res.status(404).json({ error: "Not found" })
NotFound == Json(404, [error |-> Str(<<"N", "o", "t", " ", "f", "o", "u", "n", "d">>)])

\* app.get("/api/locomotives", auth.any, ...)
GetAll ==
  \E h \in Headers :
    /\ Handled("GET", Undefined, h, EmptyBody)
    /\ res' = IF Auth_any(h) # NextCalled THEN Auth_any(h)
              ELSE JsonList(200, LocRepository_all(items))
    /\ UNCHANGED <<items, issued>>

\* app.get("/api/locomotives/:id", auth.any, ...)
GetOne ==
  \E h \in Headers, id \in ParamIds :
    /\ Handled("GET", id, h, EmptyBody)
    /\ LET item == LocRepository_get(items, Number(id)) IN
       res' = IF Auth_any(h) # NextCalled THEN Auth_any(h)
              ELSE IF item = Null THEN NotFound
              ELSE Json(200, item)
    /\ UNCHANGED <<items, issued>>

\* The data object the POST handler builds from the body.
PostData(b) ==
  [id |-> Undefined,
   serie |-> String(b.serie),
   type |-> String(b.type),
   fabrikant |-> IF Truthy(b.fabrikant) THEN String(b.fabrikant) ELSE Str(<<>>),
   bouwjaar |-> Number(Or(b.bouwjaar, Num(0))),
   spoorwijdte |-> Number(Or(b.spoorwijdte, Num(1435))),
   tractie |-> IF Truthy(b.tractie) THEN String(b.tractie) ELSE Str(<<>>),
   maxSnelheid |-> Number(Or(b.maxSnelheid, Num(0)))]

\* Post as if it tested serie only.
Post_SerieOnly ==
  \E h \in Headers, b \in Bodies :
    /\ Handled("POST", Undefined, h, b)
    /\ LET created == LocRepository_add(items, PostData(b)) IN
       IF Auth_admin(h) # NextCalled
       THEN res' = Auth_admin(h) /\ UNCHANGED <<items, issued>>
       ELSE IF ~Truthy(b.serie)
       THEN res' = Json(400, [error |-> Str(<<"B", "a", "d", " ", "r", "e", "q", "u", "e", "s", "t">>)]) /\ UNCHANGED <<items, issued>>
       ELSE /\ res' = Json(201, created.ret)
            /\ items' = created.items
            /\ issued' = Append(issued, created.ret.id)

\* app.post("/api/locomotives", auth.admin, ...)
Post ==
  \E h \in Headers, b \in Bodies :
    /\ Handled("POST", Undefined, h, b)
    /\ LET created == LocRepository_add(items, PostData(b)) IN
       IF Auth_admin(h) # NextCalled
       THEN res' = Auth_admin(h) /\ UNCHANGED <<items, issued>>
       ELSE IF ~Truthy(b.serie) \/ ~Truthy(b.type)
       THEN res' = Json(400, [error |-> Str(<<"B", "a", "d", " ", "r", "e", "q", "u", "e", "s", "t">>)]) /\ UNCHANGED <<items, issued>>
       ELSE /\ res' = Json(201, created.ret)
            /\ items' = created.items
            /\ issued' = Append(issued, created.ret.id)

\* app.put("/api/locomotives/:id", auth.admin, ...)
Put ==
  \E h \in Headers, id \in ParamIds, b \in Bodies :
    /\ Handled("PUT", id, h, b)
    /\ LET updated == LocRepository_update(items, Number(id), b) IN
       IF Auth_admin(h) # NextCalled
       THEN res' = Auth_admin(h) /\ UNCHANGED <<items, issued>>
       ELSE /\ items' = updated.items
            /\ UNCHANGED issued
            /\ res' = IF updated.ret = Null THEN NotFound ELSE Json(200, updated.ret)

\* app.delete("/api/locomotives/:id", auth.admin, ...)
Delete ==
  \E h \in Headers, id \in ParamIds :
    /\ Handled("DELETE", id, h, EmptyBody)
    /\ LET removed == LocRepository_remove(items, Number(id)) IN
       IF Auth_admin(h) # NextCalled
       THEN res' = Auth_admin(h) /\ UNCHANGED <<items, issued>>
       ELSE /\ items' = removed.items
            /\ UNCHANGED issued
            /\ res' = IF removed.ret = Null THEN NotFound ELSE Json(200, removed.ret)

\* A request is handled as it arrives.
AtOnce == UNCHANGED concVars

Next ==
  \/ GetAll /\ AtOnce
  \/ GetOne /\ AtOnce
  \/ Post /\ AtOnce
  \/ Put /\ AtOnce
  \/ Delete /\ AtOnce

Spec == Init /\ [][Next]_vars

\* ------------------------------------------------------------------------
\* A LocRepository called directly: objects have addresses, so that a caller
\* changing an object it was given changes whatever shares that object
\* ------------------------------------------------------------------------
\* Number of calls and caller assignments in one explored run.
MaxCalls == 3

\* Seeds a repository is constructed with: none, one record, two records.
RepoSeeds ==
  { <<>>,
    << SeedRow(1, <<"A">>, <<"E">>, <<"M">>, 1950, <<"E">>, 130) >>,
    << SeedRow(2, <<"B">>, <<"D">>, <<>>, 1951, <<"D">>, 90),
       SeedRow(5, <<"C">>, <<"E">>, <<"M">>, 1981, <<"E">>, 160) >> }

\* Ids a caller passes: numbers or strings.
RepoIds == { Num(1), Str(<<"2">>), Num(5), Num(6) }

\* Data a caller passes to add: what the POST handler builds.
RepoData == { PostData(b) : b \in {c \in Bodies : Truthy(c.serie) /\ Truthy(c.type)} }

\* Assignments a caller makes to an object it holds.
Assignments == { <<"serie", Str(<<"Z">>)>>, <<"maxSnelheid", Num(999)>> }

\* this.items as records.
View(st, hp) == [i \in 1..Len(st) |-> hp[st[i]]]

\* x.toJSON() as if it returned x itself.
Snapshot_Alias(hp, a) == [heap |-> hp, ref |-> a]

\* x.toJSON() of the object at address a: a new object with x's fields.
Snapshot(hp, a) ==
  [heap |-> Append(hp, Locomotief_toJSON(hp[a])), ref |-> Len(hp) + 1]

\* The snapshots of the objects at addresses as, made one after the other.
RECURSIVE Snapshots(_, _)
Snapshots(hp, as) ==
  IF as = <<>> THEN [heap |-> hp, refs |-> <<>>]
  ELSE LET one == Snapshot(hp, Head(as))
           rest == Snapshots(one.heap, Tail(as))
       IN [heap |-> rest.heap, refs |-> <<one.ref>> \o rest.refs]

RepoInit ==
  /\ items = LocRepository(Seed)
  /\ prev = LocRepository(Seed)
  /\ issued = [i \in 1..Len(Seed) |-> LocRepository(Seed)[i].id]
  /\ req = NoRequest
  /\ res = NextCalled
  /\ nreq = 0
  /\ \E seed \in RepoSeeds :
       /\ heap = LocRepository(seed)
       /\ store = [i \in 1..Len(seed) |-> i]
       /\ before = LocRepository(seed)
  /\ held = {}
  /\ call = NoCall
  /\ ret = <<>>
  /\ ncall = 0
  /\ NoneInFlight
  /\ NoClient

\* What every call does besides its work.
Called(op, id, data) ==
  /\ ncall < MaxCalls
  /\ ncall' = ncall + 1
  /\ before' = View(store, heap)
  /\ call' = [op |-> op, id |-> id, data |-> data]
  /\ UNCHANGED <<serverVars, concVars, clientVars>>

\* The caller keeps the objects at addresses as.
Returned(hp, as) ==
  /\ heap' = hp
  /\ ret' = as
  /\ held' = held \cup {as[i] : i \in 1..Len(as)}

\* repo.all()
RepoAll ==
  /\ Called("all", Undefined, EmptyBody)
  /\ LET snaps == Snapshots(heap, store) IN Returned(snaps.heap, snaps.refs)
  /\ store' = store

\* repo.get(id)
RepoGet ==
  \E id \in RepoIds :
    /\ Called("get", id, EmptyBody)
    /\ LET idx == FindIndex(View(store, heap), Number(id)) IN
       IF idx = 0 THEN Returned(heap, <<>>)
       ELSE LET snap == Snapshot(heap, store[idx]) IN Returned(snap.heap, <<snap.ref>>)
    /\ store' = store

\* repo.add(data)
RepoAdd ==
  \E data \in RepoData :
    /\ Called("add", Undefined, data)
    /\ LET added == LocRepository_add(View(store, heap), data)
           made == Append(heap, added.items[Len(added.items)])
           snap == Snapshot(made, Len(made))
       IN /\ store' = Append(store, Len(made))
          /\ Returned(snap.heap, <<snap.ref>>)

\* repo.update(id, data)
RepoUpdate ==
  \E id \in RepoIds, data \in Bodies :
    /\ Called("update", id, data)
    /\ LET idx == FindIndex(View(store, heap), Number(id)) IN
       IF idx = 0 THEN Returned(heap, <<>>)
       ELSE LET upd == [heap EXCEPT ![store[idx]] = Locomotief_update(@, data)]
                snap == Snapshot(upd, store[idx])
            IN Returned(snap.heap, <<snap.ref>>)
    /\ store' = store

\* repo.remove(id)
RepoRemove ==
  \E id \in RepoIds :
    /\ Called("remove", id, EmptyBody)
    /\ LET idx == FindIndex(View(store, heap), Number(id)) IN
       IF idx = 0 THEN Returned(heap, <<>>) /\ store' = store
       ELSE LET snap == Snapshot(heap, store[idx])
            IN Returned(snap.heap, <<snap.ref>>) /\ store' = Splice(store, idx)

\* The caller assigns to a field of an object a call returned.
CallerAssigns ==
  \E a \in held, fv \in Assignments :
    /\ Called("assign", Num(a), EmptyBody)
    /\ heap' = [heap EXCEPT ![a][fv[1]] = fv[2]]
    /\ UNCHANGED <<store, held, ret>>

RepoNext == RepoAll \/ RepoGet \/ RepoAdd \/ RepoUpdate \/ RepoRemove \/ CallerAssigns

RepoSpec == RepoInit /\ [][RepoNext]_vars

\* ------------------------------------------------------------------------
\* Requests in flight at the same time: express.json() reads a request's body
\* while other requests arrive; the route's middleware and handler then run
\* without a break
\* ------------------------------------------------------------------------
\* Requests that arrive while others are in flight.
ConcRequests ==
  { [method |-> "POST", id |-> Undefined, header |-> Str(<<"B", "e", "a", "r", "e", "r", " ", "d", "e", "m", "o", "-", "a", "d", "m", "i", "n">>),
     body |-> [EmptyBody EXCEPT !.serie = Str(<<"N", "S", " ", "1", "3", "0", "0">>), !.type = Str(<<"E", "l", "e", "k", "t", "r", "i", "s", "c", "h">>)]],
    [method |-> "PUT", id |-> Str(<<"8">>), header |-> Str(<<"B", "e", "a", "r", "e", "r", " ", "d", "e", "m", "o", "-", "a", "d", "m", "i", "n">>),
     body |-> [EmptyBody EXCEPT !.id = Num(1), !.serie = Str(<<"X">>), !.maxSnelheid = Num(140)]],
    [method |-> "DELETE", id |-> Str(<<"8">>), header |-> Str(<<"B", "e", "a", "r", "e", "r", " ", "d", "e", "m", "o", "-", "a", "d", "m", "i", "n">>),
     body |-> EmptyBody],
    [method |-> "GET", id |-> Undefined, header |-> Str(<<"d", "e", "m", "o", "-", "r", "e", "a", "d">>), body |-> EmptyBody],
    [method |-> "GET", id |-> Str(<<"8">>), header |-> Str(<<"d", "e", "m", "o", "-", "r", "e", "a", "d">>), body |-> EmptyBody] }

\* A request arrives; its body is being read.
Arrive ==
  \E r \in ConcRequests :
    /\ nreq + Cardinality(inflight) < MaxReqs
    /\ inflight' = inflight \cup {[n |-> nreq + Cardinality(inflight) + 1, req |-> r]}
    /\ UNCHANGED <<serverVars, repoVars, answers, clientVars>>

\* The request just handled was one in flight; the others stay in flight.
Taken ==
  \E r \in inflight :
    /\ r.req = req'
    /\ inflight' = inflight \ {r}
    /\ answers' = Append(answers, [n |-> r.n, req |-> req', res |-> res',
                                    with |-> {x.n : x \in inflight \ {r}}])

ConcNext ==
  \/ Arrive
  \/ GetAll /\ Taken
  \/ GetOne /\ Taken
  \/ Post /\ Taken
  \/ Put /\ Taken
  \/ Delete /\ Taken

ConcSpec == Init /\ [][ConcNext]_vars

\* ------------------------------------------------------------------------
\* The browser client (src/unnamed/part_000): the page's fields, loadData and
\* the listeners; the server is what answers a fetch
\* ------------------------------------------------------------------------
\* Number of user events (clicks, typing, submits) in one explored run.
MaxEvents == 2

\* What the user has in the two key fields when the page loads.
AdminKeys == { <<>>, <<"d", "e", "m", "o", "-", "a", "d", "m", "i", "n">> }
ReadKeys == { <<>>, <<"d", "e", "m", "o", "-", "r", "e", "a", "d">> }

\* What the user types into the form.
Typed == { [serie |-> <<" ", "N", "S", " ", "1", "3", "0", "0", " ">>, type |-> <<"E", "l", "e", "k", "t", "r", "i", "s", "c", "h">>, bouwjaar |-> <<"1", "9", "5", "2">>] }

\* The responses a fetch is answered with.
Response(code) == [status |-> code]
Outcomes == { Response(200), Response(403) }

\* The lists and items the server answers a GET with.
SeedJson == JsonStringifyAll(LocRepository_all(LocRepository(Seed)))
Lists == { <<>>, SubSeq(SeedJson, 7, 7) }

\* res.ok
ResOk(o) == o.status >= 200 /\ o.status <= 299

\* e.message in the catch blocks: `${res.status}` of the thrown Error.
Message(o) == NatToString(o.status)

\* authHeader as if it took the read key first for writes too.
AuthHeader_ReadFirst(write) ==
  LET k == Or(Str(readKey), Str(adminKey)).s
  IN [Authorization |-> <<"B", "e", "a", "r", "e", "r", " ">> \o k]

\* authHeader(write)
AuthHeader(write) ==
  LET k == IF write THEN adminKey ELSE Or(Str(readKey), Str(adminKey)).s
  IN [Authorization |-> <<"B", "e", "a", "r", "e", "r", " ">> \o k]

\* rowTemplate(x): the cells of the row and the data-id of its two buttons.
RowTemplate(x) ==
  [id |-> String(x.id).s,
   serie |-> String(x.serie).s,
   type |-> String(x.type).s,
   fabrikant |-> String(Or(x.fabrikant, Str(<<>>))).s,
   bouwjaar |-> String(Or(x.bouwjaar, Str(<<>>))).s,
   spoorwijdte |-> String(Or(x.spoorwijdte, Str(<<>>))).s,
   tractie |-> String(Or(x.tractie, Str(<<>>))).s,
   maxSnelheid |-> String(Or(x.maxSnelheid, Str(<<>>))).s]

\* s.trim()
Trim(cs) == TrimRight(TrimLeft(cs))

\* formToBody()
FormToBody ==
  [serie |-> Str(Trim(form.serie)),
   type |-> Str(Trim(form.type)),
   fabrikant |-> Str(Trim(form.fabrikant)),
   bouwjaar |-> IF Truthy(Str(form.bouwjaar)) THEN Number(Str(form.bouwjaar)) ELSE Undefined,
   spoorwijdte |-> IF Truthy(Str(form.spoorwijdte)) THEN Number(Str(form.spoorwijdte)) ELSE Undefined,
   tractie |-> Str(Trim(form.tractie)),
   maxSnelheid |-> IF Truthy(Str(form.maxSnelheid)) THEN Number(Str(form.maxSnelheid)) ELSE Undefined]

\* The form with every field empty.
EmptyForm ==
  [id |-> <<>>, serie |-> <<>>, type |-> <<>>, fabrikant |-> <<>>, bouwjaar |-> <<>>,
   spoorwijdte |-> <<>>, tractie |-> <<>>, maxSnelheid |-> <<>>]

\* setForm(x): x is null or an item; a field takes the characters of x?.f || "".
SetForm(x) ==
  IF x = Null THEN EmptyForm
  ELSE [f \in DOMAIN EmptyForm |-> String(Or(x[f], Str(<<>>))).s]

\* fetch("/api/locomotives", { headers: authHeader(false) })
LoadRequest ==
  [method |-> "GET", path |-> <<"/", "a", "p", "i", "/", "l", "o", "c", "o", "m", "o", "t", "i", "v", "e", "s">>, headers |-> AuthHeader(FALSE),
   body |-> Undefined]

\* A call of a listener or of loadData: kind says which, pc where it stands
\* ("fetch": its first fetch is out; "load": loadData's fetch is out; "rows":
\* loadData reads the list; "item": the edit reads the item; "resume":
\* loadData has returned to the await; "done"), id the data-id or idEl.value
\* it took; reload and cleared tell what it has done.
Task(kind, pc, id) ==
  [kind |-> kind, pc |-> pc, id |-> id, failed |-> FALSE, reload |-> "no", cleared |-> FALSE]

\* The page loads: the script ends with loadData().
ClientInit ==
  /\ RepoUnused
  /\ NoneInFlight
  /\ items = LocRepository(Seed)
  /\ prev = LocRepository(Seed)
  /\ issued = [i \in 1..Len(Seed) |-> LocRepository(Seed)[i].id]
  /\ req = NoRequest
  /\ res = NextCalled
  /\ nreq = 0
  /\ adminKey \in AdminKeys
  /\ readKey \in ReadKeys
  /\ form = EmptyForm
  /\ status = <<"L", "a", "d", "e", "n">>
  /\ grid = <<>>
  /\ sent = <<LoadRequest>>
  /\ tasks = <<[Task("load", "load", <<>>) EXCEPT !.reload = "started"]>>
  /\ last = [ev |-> "load", task |-> 1]
  /\ was = [form |-> EmptyForm, grid |-> <<>>, sent |-> <<>>]
  /\ nev = 0

\* No continuation of an await on a settled promise is waiting: such a
\* continuation runs before any event or response is handled.
NoJobPending == \A t \in 1..Len(tasks) : tasks[t].pc # "resume"

\* What every step of the page does besides its work.
Step(ev, t) ==
  /\ last' = [ev |-> ev, task |-> t]
  /\ was' = [form |-> form, grid |-> grid, sent |-> sent]
  /\ UNCHANGED <<serverVars, repoVars, concVars, adminKey, readKey>>

\* A user event starts a listener.
UserEvent ==
  /\ NoJobPending
  /\ nev < MaxEvents
  /\ nev' = nev + 1

\* A response or a body arrives for call t standing at pc.
Arrives(t, pc) ==
  /\ NoJobPending
  /\ tasks[t].pc = pc
  /\ nev' = nev

\* loadData() up to its fetch, called by call t.
LoadDataStarts(t) ==
  /\ status' = <<"L", "a", "d", "e", "n">>
  /\ sent' = Append(sent, LoadRequest)
  /\ Step("load", t)

\* Where call t goes when its loadData returns: a listener awaits it, the
\* load button and the page load do not.
Returns(t) == IF tasks[t].kind = "load" THEN "done" ELSE "resume"

\* The user types into the form.
Type ==
  \E f \in Typed :
    /\ UserEvent
    /\ form' = [form EXCEPT !.serie = f.serie, !.type = f.type, !.bouwjaar = f.bouwjaar]
    /\ Step("type", 0)
    /\ UNCHANGED <<status, grid, sent, tasks>>

\* btnReset click
ClickReset ==
  /\ UserEvent
  /\ form' = SetForm(Null)
  /\ status' = <<"L", "e", "e", "g">>
  /\ Step("reset", 0)
  /\ UNCHANGED <<grid, sent, tasks>>

\* btnLoad click
ClickLoad ==
  /\ UserEvent
  /\ tasks' = Append(tasks, [Task("load", "load", <<>>) EXCEPT !.reload = "started"])
  /\ LoadDataStarts(Len(tasks) + 1)
  /\ UNCHANGED <<form, grid>>

\* loadData: its fetch is answered.
LoadResponds ==
  \E t \in 1..Len(tasks), o \in Outcomes :
    /\ Arrives(t, "load")
    /\ IF ResOk(o)
       THEN /\ tasks' = [tasks EXCEPT ![t].pc = "rows"]
            /\ status' = status
       ELSE /\ tasks' = [tasks EXCEPT ![t].pc = Returns(t), ![t].reload = "completed"]
            /\ status' = <<"F", "o", "u", "t", ":", " ">> \o Message(o)
    /\ Step("loadResponds", t)
    /\ UNCHANGED <<form, grid, sent>>

\* loadData: res.json() yields the list; the grid is filled.
LoadRows ==
  \E t \in 1..Len(tasks), data \in Lists :
    /\ Arrives(t, "rows")
    /\ grid' = [i \in 1..Len(data) |-> RowTemplate(data[i])]
    /\ status' = <<"G", "e", "v", "o", "n", "d", "e", "n", " ">> \o NatToString(Len(data)) \o <<" ", "i", "t", "e", "m", "s">>
    /\ tasks' = [tasks EXCEPT ![t].pc = Returns(t), ![t].reload = "completed"]
    /\ Step("loadRows", t)
    /\ UNCHANGED <<form, sent>>

\* gridBody click on a row's Bewerken button
ClickEdit ==
  \E i \in 1..Len(grid) :
    /\ UserEvent
    /\ sent' = Append(sent, [method |-> "GET", path |-> <<"/", "a", "p", "i", "/", "l", "o", "c", "o", "m", "o", "t", "i", "v", "e", "s", "/">> \o grid[i].id,
                             headers |-> AuthHeader(FALSE), body |-> Undefined])
    /\ tasks' = Append(tasks, Task("edit", "fetch", grid[i].id))
    /\ Step("edit", Len(tasks) + 1)
    /\ UNCHANGED <<form, status, grid>>

\* The edit's fetch is answered.
EditResponds ==
  \E t \in 1..Len(tasks), o \in Outcomes :
    /\ Arrives(t, "fetch")
    /\ tasks[t].kind = "edit"
    /\ IF ResOk(o)
       THEN /\ tasks' = [tasks EXCEPT ![t].pc = "item"]
            /\ status' = status
       ELSE /\ tasks' = [tasks EXCEPT ![t].pc = "done", ![t].failed = TRUE]
            /\ status' = <<"F", "o", "u", "t", ":", " ">> \o Message(o)
    /\ Step("editResponds", t)
    /\ UNCHANGED <<form, grid, sent>>

\* The edit: res.json() yields the item; setForm(item).
EditItem ==
  \E t \in 1..Len(tasks), i \in 1..Len(SeedJson) :
    /\ Arrives(t, "item")
    /\ String(SeedJson[i].id).s = tasks[t].id
    /\ form' = SetForm(SeedJson[i])
    /\ tasks' = [tasks EXCEPT ![t].pc = "done"]
    /\ Step("editItem", t)
    /\ UNCHANGED <<status, grid, sent>>

\* gridBody click on a row's Verwijderen button
ClickDelete ==
  \E i \in 1..Len(grid) :
    /\ UserEvent
    /\ sent' = Append(sent, [method |-> "DELETE", path |-> <<"/", "a", "p", "i", "/", "l", "o", "c", "o", "m", "o", "t", "i", "v", "e", "s", "/">> \o grid[i].id,
                             headers |-> AuthHeader(TRUE), body |-> Undefined])
    /\ tasks' = Append(tasks, Task("delete", "fetch", grid[i].id))
    /\ Step("delete", Len(tasks) + 1)
    /\ UNCHANGED <<form, status, grid>>

\* frm submit
Submit ==
  LET id == form.id IN
    /\ UserEvent
    /\ sent' = Append(sent,
         [method |-> IF Truthy(Str(id)) THEN "PUT" ELSE "POST",
          path |-> IF Truthy(Str(id)) THEN <<"/", "a", "p", "i", "/", "l", "o", "c", "o", "m", "o", "t", "i", "v", "e", "s", "/">> \o id ELSE <<"/", "a", "p", "i", "/", "l", "o", "c", "o", "m", "o", "t", "i", "v", "e", "s">>,
          headers |-> [ContentType |-> <<"a", "p", "p", "l", "i", "c", "a", "t", "i", "o", "n", "/", "j", "s", "o", "n">>,
                       Authorization |-> AuthHeader(TRUE).Authorization],
          body |-> JsonStringify(FormToBody)])
    /\ tasks' = Append(tasks, Task("submit", "fetch", id))
    /\ Step("submit", Len(tasks) + 1)
    /\ UNCHANGED <<form, status, grid>>

\* The fetch of the submit or of the delete (call t) is answered with o:
\* not OK throws to the catch block, OK goes on to await loadData().
Answered(t, o) ==
  /\ Arrives(t, "fetch")
  /\ IF ResOk(o)
     THEN /\ tasks' = [tasks EXCEPT ![t].pc = "load", ![t].reload = "started"]
          /\ LoadDataStarts(t)
     ELSE /\ tasks' = [tasks EXCEPT ![t].pc = "done", ![t].failed = TRUE]
          /\ status' = <<"F", "o", "u", "t", ":", " ">> \o Message(o)
          /\ sent' = sent
          /\ Step("failed", t)
  /\ UNCHANGED <<form, grid>>

SubmitResponds ==
  \E t \in 1..Len(tasks), o \in Outcomes :
    /\ tasks[t].kind = "submit"
    /\ Answered(t, o)

DeleteResponds ==
  \E t \in 1..Len(tasks), o \in Outcomes :
    /\ tasks[t].kind = "delete"
    /\ Answered(t, o)

\* After await loadData() in the submit and the delete: setForm(null) and
\* the status.
Resumes ==
  \E t \in 1..Len(tasks) :
    /\ tasks[t].pc = "resume"
    /\ nev' = nev
    /\ form' = SetForm(Null)
    /\ status' = IF tasks[t].kind = "submit" THEN <<"O", "p", "g", "e", "s", "l", "a", "g", "e", "n">> ELSE <<"V", "e", "r", "w", "i", "j", "d", "e", "r", "d">>
    /\ tasks' = [tasks EXCEPT ![t].pc = "done", ![t].cleared = TRUE]
    /\ Step("cleared", t)
    /\ UNCHANGED <<grid, sent>>

ClientNext ==
  \/ Type
  \/ ClickReset
  \/ ClickLoad
  \/ LoadResponds
  \/ LoadRows
  \/ ClickEdit
  \/ EditResponds
  \/ EditItem
  \/ ClickDelete
  \/ Submit
  \/ SubmitResponds
  \/ DeleteResponds
  \/ Resumes

ClientSpec == ClientInit /\ [][ClientNext]_vars

\* ------------------------------------------------------------------------
\* Properties
\* ------------------------------------------------------------------------
AdminMethods == {"POST", "PUT", "DELETE"}

\* The token the last request presented.
Token == Auth_token(req.header)

\* The last request named a path id that no record had when it arrived.
Miss == \A i \in 1..Len(prev) : ~StrictEq(prev[i].id, Number(req.id))

\* The positions of the records that had the path id of the last request.
Hits == {i \in 1..Len(prev) : StrictEq(prev[i].id, Number(req.id))}

StringFields == {"serie", "type", "fabrikant", "tractie"}

NumberFields == {"bouwjaar", "spoorwijdte", "maxSnelheid"}

\* C1: every id add gives out is strictly greater than every id given out
\* before it, the seeded ids and the ids of removed records included.
C1_IdsStrictlyIncrease ==
  \A i, j \in 1..Len(issued) : i < j => issued[i].n < issued[j].n

\* C2: no two live records have the same id.
C2_UniqueIds ==
  \A i, j \in 1..Len(items) : i # j => items[i].id # items[j].id

\* A record was created after another one had been removed.
C2_Witness ==
  /\ req.method = "POST" /\ res.status = 201
  /\ Len(prev) < Len(Seed)
  /\ Len(items) = Len(prev) + 1

\* C3: the collection changes only by a POST, PUT or DELETE whose token is the
\* admin key; any other request leaves it as it was.
C3_OnlyAdminMutates ==
  /\ items # prev => req.method \in AdminMethods /\ Token = ADMIN_KEY
  /\ req.method \in AdminMethods /\ Token # ADMIN_KEY =>
       items = prev /\ res.status \in {401, 403}

\* A PUT with the read key that would have changed a record was refused and
\* changed nothing.
C3_Witness ==
  /\ req.method = "PUT" /\ Token = API_KEY
  /\ LocRepository_update(prev, req.id, req.body).items # prev
  /\ items = prev
  /\ res.status = 403

\* C4: the any tier admits a token iff it is the read key or the admin key,
\* the admin tier admits it iff it is the admin key; the read key is refused
\* at the admin tier and the empty token at both.
C4_AccessClassification ==
  /\ req.method = "GET" => (res.status # 401 <=> Token = API_KEY \/ Token = ADMIN_KEY)
  /\ req.method \in AdminMethods => (res.status # 403 <=> Token = ADMIN_KEY)
  /\ req.method \in AdminMethods /\ Token = API_KEY => res.status = 403
  /\ req.method = "GET" /\ Token = Str(<<>>) => res.status = 401
  /\ req.method \in AdminMethods /\ Token = Str(<<>>) => res.status = 403

\* The read key was refused a create whose body was valid.
C4_Witness ==
  /\ req.method = "POST" /\ Token = API_KEY
  /\ Truthy(req.body.serie) /\ Truthy(req.body.type)
  /\ res.status = 403

\* C5: an admin-tier request with a token that is neither key is answered 401,
\* one with the read key 403; an any-tier request with neither key 401.
C5_DenialStatus ==
  /\ req.method \in AdminMethods /\ Token \notin {API_KEY, ADMIN_KEY} => res.status = 401
  /\ req.method \in AdminMethods /\ Token = API_KEY => res.status = 403
  /\ req.method = "GET" /\ Token \notin {API_KEY, ADMIN_KEY} => res.status = 401

\* C6: an update that finds its record overwrites each patchable field the
\* patch has with the coerced value (an empty string too), keeps each field the
\* patch lacks, and leaves every other record as it was.
C6_PartialUpdate ==
  req.method = "PUT" /\ res.status = 200 =>
    /\ Len(items) = Len(prev)
    /\ \E k \in Hits :
         /\ \A i \in 1..Len(prev) : i # k => items[i] = prev[i]
         /\ \A f \in StringFields :
              items[k][f] = IF req.body[f] # Undefined THEN String(req.body[f])
                            ELSE prev[k][f]
         /\ \A f \in NumberFields :
              items[k][f] = IF req.body[f] # Undefined THEN Number(req.body[f])
                            ELSE prev[k][f]

\* An update cleared fabrikant to the empty string, set tractie and kept
\* maxSnelheid.
C6_Witness ==
  /\ req.method = "PUT" /\ res.status = 200
  /\ req.body.fabrikant = Str(<<>>) /\ req.body.maxSnelheid = Undefined
  /\ \E k \in Hits :
       /\ prev[k].fabrikant # Str(<<>>)
       /\ items[k].fabrikant = Str(<<>>)
       /\ items[k].tractie = req.body.tractie
       /\ items[k].maxSnelheid = prev[k].maxSnelheid

\* C7: an update changes no id, also when the patch has an id field.
C7_UpdateKeepsIds ==
  req.method = "PUT" =>
    /\ Len(items) = Len(prev)
    /\ \A i \in 1..Len(prev) : items[i].id = prev[i].id
    /\ res.status = 200 => StrictEq(res.body.id, Number(req.id))

\* An update whose patch carried another id than the record's went through.
C7_Witness ==
  /\ req.method = "PUT" /\ res.status = 200
  /\ req.body.id # Undefined
  /\ ~StrictEq(Number(req.body.id), Number(req.id))
  /\ items # prev

\* C8: get, update and remove of an id no record has answer 404 and leave
\* the collection as it was.
C8_MissChangesNothing ==
  /\ req.id # Undefined
  /\ res.status \notin {401, 403}
  /\ Miss
  => res = NotFound /\ items = prev

\* An update of an id no record has, with a patch that has fields, was
\* answered 404.
C8_Witness ==
  /\ req.method = "PUT" /\ Token = ADMIN_KEY
  /\ Miss
  /\ req.body.serie # Undefined
  /\ res.status = 404

\* C9: after a successful remove the id is no longer found, and exactly the
\* one record with that id is gone.
C9_DeleteThenGet ==
  req.method = "DELETE" /\ res.status = 200 =>
    /\ LocRepository_get(items, req.id) = Null
    /\ Cardinality(Hits) = 1
    /\ Len(items) = Len(prev) - 1
    /\ \E k \in Hits :
         /\ res.body = JsonStringify(prev[k])
         /\ \A i \in 1..Len(items) : items[i] = IF i < k THEN prev[i] ELSE prev[i + 1]

\* A record that was not the last one was removed.
C9_Witness ==
  /\ req.method = "DELETE" /\ res.status = 200
  /\ \E k \in Hits : k < Len(prev)
  /\ Len(items) = Len(prev) - 1

\* C10: every live record has a non-empty serie and a non-empty type.
C10_SerieAndTypeNonEmpty ==
  \A i \in 1..Len(items) : items[i].serie # Str(<<>>) /\ items[i].type # Str(<<>>)

\* The body of the last request lacks serie or type, or has one of them empty.
LacksRequired(b) ==
  \/ b.serie = Undefined \/ b.serie = Str(<<>>)
  \/ b.type = Undefined \/ b.type = Str(<<>>)

\* C11: a create by an admin whose body lacks serie or type, or has one of
\* them empty, is answered 400, assigns no id and leaves the collection as it
\* was.
C11_BadCreate ==
  [][ /\ nreq' = nreq + 1
      /\ req'.method = "POST"
      /\ Auth_token(req'.header) = ADMIN_KEY
      /\ LacksRequired(req'.body)
      => /\ res' = Json(400, [error |-> Str(<<"B", "a", "d", " ", "r", "e", "q", "u", "e", "s", "t">>)])
         /\ items' = items
         /\ issued' = issued ]_vars

\* An admin's create with a serie and no type was answered 400.
C11_Witness ==
  /\ req.method = "POST" /\ Token = ADMIN_KEY
  /\ Truthy(req.body.serie) /\ req.body.type = Undefined
  /\ res.status = 400
  /\ items = prev

\* The pieces of a header between runs of blanks.
Words(cs) == SelectSeq(Split(cs), LAMBDA p : p # <<>>)

\* C14: a header of exactly two whitespace-separated parts gives the second
\* part as the token, every other header gives the header itself, a missing
\* header the empty token.
C14_TokenExtraction ==
  nreq > 0 =>
    LET h == IF req.header = Undefined THEN Str(<<>>) ELSE req.header IN
    Token = IF Len(Words(h.s)) = 2 THEN Str(Words(h.s)[2]) ELSE h

\* C15: add puts the new record last, update moves no record, remove takes
\* one record out and keeps the order of the others, and the list route
\* answers every live record in that order.
C15_InsertionOrder ==
  /\ req.method = "POST" /\ res.status = 201 =>
       /\ Len(items) = Len(prev) + 1
       /\ \A i \in 1..Len(prev) : items[i] = prev[i]
       /\ res.body = JsonStringify(items[Len(items)])
  /\ req.method = "PUT" =>
       /\ Len(items) = Len(prev)
       /\ \A i \in 1..Len(prev) : items[i].id = prev[i].id
  /\ req.method = "DELETE" /\ res.status = 200 =>
       \E k \in 1..Len(prev) :
         /\ Len(items) = Len(prev) - 1
         /\ \A i \in 1..Len(items) : items[i] = IF i < k THEN prev[i] ELSE prev[i + 1]
  /\ req.method = "GET" /\ req.id = Undefined /\ res.status = 200 =>
       /\ Len(res.body) = Len(items)
       /\ \A i \in 1..Len(items) : res.body[i] = JsonStringify(items[i])

\* The list was read after the first record had been removed and a record
\* added: the added one is last, the others moved up.
C15_Witness ==
  /\ req.method = "GET" /\ req.id = Undefined /\ res.status = 200
  /\ Len(res.body) = Len(Seed)
  /\ res.body[1].id = Num(2)
  /\ res.body[Len(Seed)].id = Num(Len(Seed) + 1)

\* The default the constructor declares for an optional field.
DeclaredDefault(f) ==
  CASE f = "spoorwijdte" -> Num(1435)
    [] f \in {"bouwjaar", "maxSnelheid"} -> Num(0)
    [] OTHER -> Str(<<>>)

\* C17: the record a create returns is the one get then finds under the
\* returned id; each field the body supplied has the supplied value (as a
\* string or number), each field it omitted has its declared default.
C17_CreateRoundTrip ==
  req.method = "POST" /\ res.status = 201 =>
    /\ JsonStringify(LocRepository_get(items, res.body.id)) = res.body
    /\ \A f \in StringFields :
         res.body[f] = IF req.body[f] # Undefined THEN String(req.body[f])
                       ELSE DeclaredDefault(f)
    /\ \A f \in NumberFields :
         res.body[f] = IF req.body[f] # Undefined THEN JsonValue(Number(req.body[f]))
                       ELSE DeclaredDefault(f)

\* The records of this.items now.
Stored == View(store, heap)

\* C12: add gives the new record the largest id of the live records plus
\* one, 1 when there is none, puts it last, leaves the records there were as
\* they were, and returns a snapshot with that id.
C12_AddAssignsMaxPlusOne ==
  call.op = "add" =>
    /\ Len(Stored) = Len(before) + 1
    /\ \A i \in 1..Len(before) : Stored[i] = before[i]
    /\ LET new == Stored[Len(Stored)] IN
       /\ new.id.t = "number"
       /\ Len(before) = 0 => new.id.n = 1
       /\ Len(before) > 0 =>
            /\ \A i \in 1..Len(before) : before[i].id.n < new.id.n
            /\ \E i \in 1..Len(before) : before[i].id.n + 1 = new.id.n
       /\ Len(ret) = 1 /\ heap[ret[1]] = new

\* add was called on a repository without records and gave id 1.
C12_Witness ==
  /\ call.op = "add"
  /\ before = <<>>
  /\ Len(ret) = 1 /\ heap[ret[1]].id = Num(1)
  /\ Len(store) = 1

\* C13: all and get leave the collection as it was, and an assignment by the
\* caller to an object a call returned changes no stored record, so that
\* later reads answer as before.
C13_ReadsAreDetached ==
  /\ call.op \in {"all", "get", "assign"} => Stored = before
  /\ \A a \in held : \A i \in 1..Len(store) : store[i] # a

\* The caller changed a record that get or all had returned, and the stored
\* record with that id is not changed.
C13_Witness ==
  /\ call.op = "assign"
  /\ \E a \in held : \E i \in 1..Len(store) :
       /\ call.id = Num(a)
       /\ heap[a].id = Stored[i].id
       /\ heap[a] # Stored[i]
       /\ Stored[i] = before[i]

\* Answers i and j are to requests that were in flight at the same time.
Concurrent(i, j) == answers[j].n \in answers[i].with \/ answers[i].n \in answers[j].with

\* C16: requests in flight at the same time are each handled in one step, so
\* that two concurrent creates never get the same id.
C16_ConcurrentCreatesDiffer ==
  \A i, j \in 1..Len(answers) :
    /\ i # j
    /\ Concurrent(i, j)
    /\ answers[i].req.method = "POST" /\ answers[i].res.status = 201
    /\ answers[j].req.method = "POST" /\ answers[j].res.status = 201
    => answers[i].res.body.id # answers[j].res.body.id

\* The calls of the submit and delete listeners.
Saves == { t \in 1..Len(tasks) : tasks[t].kind \in {"submit", "delete"} }

\* C18: the client's save sends PUT to the record's path when the id field is
\* not empty and POST to the collection otherwise, with the admin key; a save
\* or delete answered not OK reloads nothing and leaves the form (the status
\* alone shows the error); one answered OK clears the form only after its
\* reload has completed.
C18_ClientSave ==
  /\ last.ev = "submit" =>
       LET r == sent[Len(sent)] IN
         /\ Len(sent) = Len(was.sent) + 1
         /\ r.method = IF form.id # <<>> THEN "PUT" ELSE "POST"
         /\ r.path = IF form.id # <<>> THEN <<"/", "a", "p", "i", "/", "l", "o", "c", "o", "m", "o", "t", "i", "v", "e", "s", "/">> \o form.id
                     ELSE <<"/", "a", "p", "i", "/", "l", "o", "c", "o", "m", "o", "t", "i", "v", "e", "s">>
         /\ r.headers.Authorization = <<"B", "e", "a", "r", "e", "r", " ">> \o adminKey
  /\ last.ev = "failed" =>
       /\ last.task \in Saves
       /\ sent = was.sent
       /\ grid = was.grid
       /\ form = was.form
       /\ SubSeq(status, 1, 6) = <<"F", "o", "u", "t", ":", " ">>
  /\ last.ev = "cleared" =>
       /\ last.task \in Saves
       /\ tasks[last.task].reload = "completed"
       /\ form = EmptyForm
  /\ \A t \in Saves :
       /\ tasks[t].failed => tasks[t].reload = "no" /\ ~tasks[t].cleared
       /\ tasks[t].cleared => tasks[t].reload = "completed"
       /\ tasks[t].reload = "started" => ~tasks[t].cleared /\ tasks[t].pc \in {"load", "rows"}

\* A save of an edited record (PUT) was answered OK, the list was reloaded
\* with the read key, and the form has just been cleared.
C18_Witness ==
  /\ last.ev = "cleared"
  /\ tasks[last.task].kind = "submit"
  /\ tasks[last.task].id # <<>>
  /\ tasks[last.task].reload = "completed"
  /\ readKey # <<>>
  /\ adminKey # <<>>
  /\ status = <<"O", "p", "g", "e", "s", "l", "a", "g", "e", "n">>
  /\ \E i \in 1..Len(sent) : sent[i].method = "PUT"

====
